---- MODULE Spec2Model ----
(***************************************************************************)
(* AuthClient (core/client.ts): the axios wrapper with the 401-triggered   *)
(* single-flight token refresh.  One gateway instance, NReq application    *)
(* requests sent through this.api, the transport answering them in any     *)
(* order, and the public setTokens / clearTokens calls.  Every action is   *)
(* one run-to-completion handler of the event loop, the continuations of   *)
(* the callers it settles included.                                        *)
(*                                                                         *)
(* Spec       the AuthClient under application requests                    *)
(* OAuthSpec  a page running OAuthCallbackHandler.processCallback          *)
(* LoginSpec  LoginForm inside AuthProvider                                *)
(* FragmentSpec  a page calling OAuth2FragmentHandler (utils/tokens.ts)    *)
(* MountSpec  AuthProvider running its mount effect, no user action        *)
(***************************************************************************)
EXTENDS Integers, Sequences, FiniteSets, TLC

\* ------------------------------------------------------------------ bounds
NReq == 3            \* application requests, numbered in the order they are sent
Max401 == 3          \* 401 answers the transport gives to application requests
MaxFlowReqs == 2     \* requests sent in a scenario of the OAuth callback page or the login form

\* --------------------------------------------------------------- constants
Reqs == 1..NReq
RefreshId == 0                       \* the POST /token/refresh request
None == "none"                       \* null / undefined / header absent
AccessToks == {"A1", "A2"}
RefreshToks == {"R1", "R2"}
\* token pairs a login hands to setTokens, and pairs the Refresh Endpoint returns
\* (AuthTokens.refresh_token is optional)
LoginPairs == {<<"A1", "R1">>, <<"A1", None>>}
RefreshedPairs == {<<"A2", "R2">>, <<"A2", None>>}
ErrStatuses == {"e401", "e500", "neterr"}   \* 401, other status, network failure

VARIABLES
    enableAutoRefresh,  \* this.config.enableAutoRefresh
    accessToken,        \* this.accessToken
    refreshToken,       \* this.refreshToken
    isRefreshing,       \* this.isRefreshing
    failedQueue,        \* this.failedQueue
    phase,              \* where each request's promise chain is waiting
    isRetry,            \* config._isRetry of each request
    refreshInFlight,    \* triggers whose refresh call is outstanding at the transport
    refreshCalls,       \* calls made to the Refresh Endpoint so far
    answer,             \* the transport answer the latest handler consumed
    forwarded,          \* requests handed to the transport by the latest handler
    delivered,          \* outcomes handed to callers by the latest handler, in order
    batch,              \* requests drained from failedQueue by the latest drain
    settled,            \* those of batch whose caller observed the outcome, in that order
    lastDrain,          \* how the latest drain settled them
    burst,              \* all sends were concurrent and every answer so far was a 401
    n401,               \* 401 answers given to application requests so far
    dispatches,         \* times each request was handed to the transport
    kind,               \* which caller sent each request through this.api
    url,                \* window.location of the page
    storedState,        \* sessionStorage item "oauth_state"
    cbReturn,           \* what processCallback calls returned in the latest handler
    callbacks,          \* UI callbacks invoked by the latest handler, in order
    tokenCall,          \* the public token call the latest step was, with its arguments
    hash,               \* window.location.hash without its "#", as the parameters it holds
    hasProcessed,       \* OAuth2FragmentHandler.hasProcessed
    currentFragment,    \* OAuth2FragmentHandler.currentFragment
    fragResult,         \* what the latest OAuth2FragmentHandler call returned
    fragOp,             \* which OAuth2FragmentHandler call the latest step was
    seen,               \* processFragment ran on this fragment, no resetProcessingState since
    afterClear,         \* "yes" once processAndClear ran on this page, "reset" once
                        \* resetProcessingState was called after it, "no" otherwise
    yielded,            \* the tokens a call returned since the fragment arrived
    reloadPending,      \* clearFragment fell back to reloading the page
    autoHandleOAuthCallback,  \* the AuthProvider prop
    isLoading,          \* AuthProvider state.isLoading
    mountPc,            \* where AuthProvider's mount effect is waiting
    storedTokens        \* what retrieveTokens(config.tokenStorage) finds

vars == <<enableAutoRefresh, accessToken, refreshToken, isRefreshing, failedQueue,
          phase, isRetry, refreshInFlight, refreshCalls, answer,
          forwarded, delivered, settled, batch, lastDrain, burst, n401,
          dispatches, kind, url, storedState, cbReturn, callbacks,
          tokenCall, hash, hasProcessed, currentFragment, fragResult, fragOp,
          seen, afterClear, yielded, reloadPending,
          autoHandleOAuthCallback, isLoading, mountPc, storedTokens>>

\* the state of the page outside the AuthClient and its callers
pageVars == <<hash, hasProcessed, currentFragment, fragResult, fragOp,
              seen, afterClear, yielded, reloadPending>>

\* AuthProvider and the token storage it reads
mountVars == <<autoHandleOAuthCallback, isLoading, mountPc, storedTokens>>

\* ----------------------------------------------------------------- values
LocalId == -1                        \* an error object built by the client itself
NoId == -2
Pending == [res |-> "pending", from |-> NoId, st |-> None]
NoError == Pending                   \* error = null
Resolved(id, s) == [res |-> "resolved", from |-> id, st |-> s]
RejectedAsLocal(id, s) == [res |-> "rejected", from |-> LocalId, st |-> s]
Rejected(id, s) == [res |-> "rejected", from |-> id, st |-> s]
\* new Error("Refresh token missing. Please re-authenticate.")
MissingRefreshTokenError == Rejected(LocalId, "missing")
\* new AxiosError("Authentication required", "401", config)
AuthRequiredError == Rejected(LocalId, "authreq")

AppEntry(r) == [kind |-> "app", id |-> r]
RefreshEntry(r) == [kind |-> "refresh", id |-> r]

RECURSIVE AppIds(_)
AppIds(q) ==
    IF q = <<>> THEN <<>>
    ELSE IF Head(q).kind = "app" THEN <<Head(q).id>> \o AppIds(Tail(q))
         ELSE AppIds(Tail(q))

SeqRange(s) == {s[i] : i \in 1..Len(s)}

\* ------------------------------------------------------- AuthClient pieces
\* request interceptor: the bearer header is overwritten when a token is held
AttachTokenNever(cfgAuth, tok) == cfgAuth
AttachToken(cfgAuth, tok) == IF tok # None THEN tok ELSE cfgAuth

Answer(id, s, d) == [req |-> id, st |-> s, data |-> d]
NoAnswer == Answer(NoId, None, <<>>)
Deliver(id, result) == [req |-> id, result |-> result]

Wire(id, auth, body) == [req |-> id, auth |-> auth, body |-> body]

\* the guard of the refresh branch
ShouldRefreshAlways(st, retry) == st = "e401" /\ ~retry
ShouldRefresh(st, retry) == st = "e401" /\ ~retry /\ enableAutoRefresh

\* if (this.isRefreshing)
RefreshNeverUnderway == FALSE
RefreshUnderway == isRefreshing

\* this.failedQueue.push(...)
EnqueueTwice(q, e) == Append(Append(q, e), e)
EnqueueFront(q, e) == <<e>> \o q
Enqueue(q, e) == Append(q, e)

\* a call of the public token API: setTokens(a, rt?) or clearTokens()
Call(op, args) == [op |-> op, args |-> args]
NoCall == Call(None, <<>>)

\* setTokens: refreshToken || null
SetTokensKeepRefresh(a, rt) ==
    [access |-> a, refresh |-> IF refreshToken # None THEN refreshToken ELSE rt]
SetTokens(a, rt) == [access |-> a, refresh |-> rt]

\* clearTokens
ClearTokensRefreshOnly == [access |-> accessToken, refresh |-> None]
ClearTokens == [access |-> None, refresh |-> None]

IsAuthenticated == accessToken # None

\* one iteration of the while loop of processQueue
SettleEntry(e, tok, err) ==
    IF tok # None
    THEN [id |-> e.id, kind |-> e.kind, act |-> "replay", auth |-> tok, err |-> Pending]
    ELSE [id |-> e.id, kind |-> e.kind, act |-> "reject", auth |-> None,
          err |-> IF err # NoError THEN err ELSE AuthRequiredError]

RECURSIVE processQueueLifo(_, _, _)
processQueueLifo(q, tok, err) ==
    IF q = <<>> THEN <<>>
    ELSE <<SettleEntry(q[Len(q)], tok, err)>>
         \o processQueueLifo(SubSeq(q, 1, Len(q) - 1), tok, err)

RECURSIVE processQueue(_, _, _)
processQueue(q, tok, err) ==
    IF q = <<>> THEN <<>>
    ELSE <<SettleEntry(Head(q), tok, err)>> \o processQueue(Tail(q), tok, err)

\* what the while loop of processQueue leaves in failedQueue
QueueAfterDrainOne(q) == IF q = <<>> THEN q ELSE Tail(q)
QueueAfterDrain(q) == SubSeq(q, Len(q) + 1, Len(q))

\* the effects of a drain, restricted to application requests
RECURSIVE AppEffects(_)
AppEffects(effs) ==
    IF effs = <<>> THEN <<>>
    ELSE IF Head(effs).kind = "app" THEN <<Head(effs)>> \o AppEffects(Tail(effs))
         ELSE AppEffects(Tail(effs))

EffIds(effs) == {effs[i].id : i \in 1..Len(effs)}
EffOf(effs, r) == effs[CHOOSE i \in 1..Len(effs) : effs[i].id = r]
\* the reject(...) calls of a drain, in the order they are made
RECURSIVE EffDeliver(_)
EffDeliver(effs) ==
    IF effs = <<>> THEN <<>>
    ELSE IF Head(effs).act = "reject"
         THEN <<Deliver(Head(effs).id, Head(effs).err)>> \o EffDeliver(Tail(effs))
         ELSE EffDeliver(Tail(effs))
RECURSIVE EffReplays(_)
EffReplays(effs) ==
    IF effs = <<>> THEN <<>>
    ELSE IF Head(effs).act = "replay" THEN <<Head(effs)>> \o EffReplays(Tail(effs))
         ELSE EffReplays(Tail(effs))
DeliveredIds(d) == [i \in 1..Len(d) |-> d[i].req]
\* this.api(config) of each replayed entry, through the request interceptor
EffWireStale(effs, tok) ==
    [i \in 1..Len(effs) |-> Wire(effs[i].id, accessToken, None)]
EffWire(effs, tok) ==
    [i \in 1..Len(effs) |-> Wire(effs[i].id, AttachToken(effs[i].auth, tok), None)]

\* the refresh success path: processQueue(newAccessToken) replays the queue,
\* then return this.api(originalRequest) replays the trigger
ReplayTriggerFirst(queueWires, triggerWire) == <<triggerWire>> \o queueWires
ReplayAfterQueue(queueWires, triggerWire) == queueWires \o <<triggerWire>>

\* the caller of r observes its outcome
Observe(r) == IF r \in SeqRange(batch) THEN Append(settled, r) ELSE settled

\* this.api(config): one more hand-over to the transport per forwarded request
CountDispatches(d, fw) ==
    [x \in Reqs |-> d[x] + Cardinality({i \in 1..Len(fw) : fw[i].req = x})]

NoResponseYet == \A r \in Reqs : phase[r] \in {"idle", "inflight"}

\* ----------------------------------------------- callers of the AuthClient
\* a value that passes if (x): neither null nor the empty string
Truthy(x) == x # None /\ x # ""

\* window.location of a page load, as isOAuthCallback and extractOAuthParams
\* read it: pathname.includes("/auth/"), search.includes("code="), and the
\* query parameters code, state and error (None when absent)
Codes == {None, "", "c1"}
States == {None, "", "s1", "s2"}
OAuthErrors == {None, "", "denied"}
Urls ==
    { u \in [inAuthPath : BOOLEAN, hasCodeEq : BOOLEAN, code : Codes,
             state : States, error : OAuthErrors] : u.code # None => u.hasCodeEq }
NoUrl == [inAuthPath |-> FALSE, hasCodeEq |-> FALSE, code |-> None,
          state |-> None, error |-> None]
\* states the application hands to storeOAuthState
StoredStates == {"s1"}

isOAuthCallback(u) == u.inAuthPath /\ u.hasCodeEq
extractOAuthParams(u) == [code |-> u.code, state |-> u.state, error |-> u.error]
\* sessionStorage item "oauth_state" after clearOAuthState()
clearOAuthStateKeeps == storedState
clearOAuthState == None
validateOAuthStateAlways(receivedState, stored) == TRUE
validateOAuthState(receivedState, stored) == receivedState = stored

\* OAuthCallbackResult
CallbackFailure(msg) == [success |-> FALSE, error |-> msg, tokens |-> <<>>]
CallbackSuccess(d) == [success |-> TRUE, error |-> None, tokens |-> d]

\* the checks of processCallback before the exchange: the error of the
\* failure it returns, or None when the exchange is to be made
CallbackChecks(u, stored) ==
    LET q == extractOAuthParams(u) IN
    IF ~isOAuthCallback(u) THEN "Not an OAuth callback URL"
    ELSE IF Truthy(q.error) THEN "OAuth error"
    ELSE IF ~Truthy(q.code) THEN "Authorization code not found"
    ELSE IF ~Truthy(q.state) THEN "State parameter not found"
    ELSE IF ~validateOAuthState(q.state, stored) THEN "Invalid state parameter"
    ELSE None

\* err.message of the error a request was rejected with
ErrorMessage(res) == res.st

\* processCallback after await this.authClient.oauthLoginCallback(...)
CallbackResult(res, d) ==
    IF res.res = "resolved" THEN CallbackSuccess(d)
    ELSE CallbackFailure(ErrorMessage(res))

\* AuthProvider.login after await authClient.login(credentials): the callbacks
\* of the provider it invokes, and how its own promise settles
ProviderCallback(name) == [by |-> "AuthProvider", cb |-> name]
FormCallback(name) == [by |-> "LoginForm", cb |-> name]
AuthProviderLogin(res) ==
    IF res.res = "resolved"
    THEN [callbacks |-> <<ProviderCallback("onAuthSuccess")>>, settles |-> "resolved"]
    ELSE [callbacks |-> <<ProviderCallback("onError")>>, settles |-> "resolved"]

\* LoginForm.handleSubmit after await login(formData)
LoginFormHandleSubmit(res) ==
    LET p == AuthProviderLogin(res) IN
    p.callbacks \o (IF p.settles = "resolved"
                    THEN <<FormCallback("onSuccess")>>
                    ELSE <<FormCallback("onError")>>)

\* the outcomes of dl that belong to requests sent by callers of kind kd
RECURSIVE OfKind(_, _)
OfKind(dl, kd) ==
    IF dl = <<>> THEN <<>>
    ELSE IF kind[Head(dl).req] = kd THEN <<Head(dl)>> \o OfKind(Tail(dl), kd)
         ELSE OfKind(Tail(dl), kd)

RECURSIVE LoginCallbacks(_)
LoginCallbacks(dl) ==
    IF dl = <<>> THEN <<>>
    ELSE LoginFormHandleSubmit(Head(dl).result) \o LoginCallbacks(Tail(dl))

\* ------------------------------------------- OAuth2FragmentHandler (tokens.ts)
\* a URL fragment as the parameters new URLSearchParams(fragment) finds in it;
\* None is a parameter that is absent, "" one that is present and empty
FragErrors == {None, "", "denied"}
FragAccess == {None, "", "A1"}
FragRefresh == {None, "R1"}
FragUsers == {None, "u1"}
Fragments == [error : FragErrors, access_token : FragAccess,
              refresh_token : FragRefresh, user_id : FragUsers]
\* the empty fragment ""
NoFragment == [error |-> None, access_token |-> None, refresh_token |-> None,
               user_id |-> None]

FragmentFailure(err) == [success |-> FALSE, error |-> err, tokens |-> <<>>]
FragmentSuccess(f) ==
    [success |-> TRUE, error |-> None,
     tokens |-> <<f.access_token, f.refresh_token, f.user_id>>]
NoFragmentResult == [success |-> FALSE, error |-> None, tokens |-> <<>>]
AlreadyProcessed == FragmentFailure("already_processed")

\* the tokens handed out so far, after a call that returned res
Yielded(y, res) == IF res.success THEN res.tokens ELSE y

\* the guard of processFragment against a second run on the same fragment
SeenBeforeNever(f) == FALSE
SeenBefore(f) == hasProcessed /\ currentFragment = f

\* processFragment past that guard: the error parameter first, then the tokens
ParseFragment(f) ==
    IF f.error # None
    THEN FragmentFailure(IF Truthy(f.error) THEN f.error ELSE "Unknown OAuth error")
    ELSE IF ~Truthy(f.access_token) \/ ~Truthy(f.refresh_token) \/ ~Truthy(f.user_id)
         THEN FragmentFailure("incomplete_auth_data")
         ELSE FragmentSuccess(f)

\* what processFragment() returns, and the state it leaves
processFragment(f) ==
    IF SeenBefore(f)
    THEN [result |-> AlreadyProcessed, hasProcessed |-> hasProcessed,
          currentFragment |-> currentFragment]
    ELSE [result |-> ParseFragment(f), hasProcessed |-> TRUE,
          currentFragment |-> f]

\* ------------------------------------------ AuthProvider mount effect
\* retrieveTokens() returning null
NoStoredTokens == <<>>

\* the mount effect after handler.processCallback() has returned result:
\* setAuthenticatedUser on success, otherwise the check for stored tokens
MountAfterCallback(result) ==
    IF result.success
    THEN [pc |-> "returned", isLoading |-> FALSE, storedTokens |-> storedTokens]
    ELSE IF storedTokens # NoStoredTokens /\ Truthy(storedTokens[1])
         THEN [pc |-> "validate", isLoading |-> isLoading,
               storedTokens |-> storedTokens]
         ELSE [pc |-> "returned", isLoading |-> FALSE,
               storedTokens |-> storedTokens]

\* the mount effect after authClient.validateToken() has settled with res:
\* resolved valid sets the authenticated user, resolved invalid falls through
\* to isLoading: false, rejected clears the stored tokens first
MountAfterValidate(res) ==
    IF res.res = "resolved"
    THEN [pc |-> "returned", isLoading |-> FALSE, storedTokens |-> storedTokens]
    ELSE [pc |-> "returned", isLoading |-> FALSE, storedTokens |-> NoStoredTokens]

MountStays == [pc |-> mountPc, isLoading |-> isLoading, storedTokens |-> storedTokens]

\* the continuation of the mount effect in a handler that settles the call it
\* is awaiting
MountResume ==
    LET m == IF mountPc = "processCallback" /\ cbReturn' # <<>>
             THEN MountAfterCallback(cbReturn'[1])
             ELSE IF mountPc = "validateToken" /\ OfKind(delivered', "validate") # <<>>
             THEN MountAfterValidate(OfKind(delivered', "validate")[1].result)
             ELSE MountStays
    IN  /\ mountPc' = m.pc
        /\ isLoading' = m.isLoading
        /\ storedTokens' = m.storedTokens
        /\ UNCHANGED autoHandleOAuthCallback

\* the continuations of the callers whose request the handler has settled
CallersResume ==
    /\ cbReturn' = [i \in 1..Len(OfKind(delivered', "oauth")) |->
                       CallbackResult(OfKind(delivered', "oauth")[i].result,
                                      answer'.data)]
    /\ callbacks' = LoginCallbacks(OfKind(delivered', "login"))
    /\ tokenCall' = NoCall
    /\ UNCHANGED <<kind, url, storedState>>
    /\ UNCHANGED pageVars
    /\ MountResume

\* -------------------------------------------------------------------- Init
Init ==
    /\ enableAutoRefresh \in BOOLEAN
    /\ accessToken = None
    /\ refreshToken = None
    /\ isRefreshing = FALSE
    /\ failedQueue = <<>>
    /\ phase = [r \in Reqs |-> "idle"]
    /\ isRetry = [r \in Reqs |-> FALSE]
    /\ refreshInFlight = {}
    /\ refreshCalls = 0
    /\ answer = NoAnswer
    /\ forwarded = <<>>
    /\ delivered = <<>>
    /\ settled = <<>>
    /\ batch = <<>>
    /\ lastDrain = None
    /\ burst = TRUE
    /\ n401 = 0
    /\ dispatches = [r \in Reqs |-> 0]
    /\ kind = [r \in Reqs |-> "app"]
    /\ url = NoUrl
    /\ storedState = None
    /\ cbReturn = <<>>
    /\ callbacks = <<>>
    /\ tokenCall = NoCall
    /\ hash = NoFragment
    /\ hasProcessed = FALSE
    /\ currentFragment = NoFragment
    /\ fragResult = NoFragmentResult
    /\ fragOp = None
    /\ seen = FALSE
    /\ afterClear = "no"
    /\ yielded = <<>>
    /\ reloadPending = FALSE
    /\ autoHandleOAuthCallback = TRUE
    /\ isLoading = TRUE
    /\ mountPc = "unmounted"
    /\ storedTokens = NoStoredTokens

\* ----------------------------------------------------------------- actions
\* public setTokens(accessToken, refreshToken?)
SetTokensCall(a, rt) ==
    /\ accessToken' = SetTokens(a, rt).access
    /\ refreshToken' = SetTokens(a, rt).refresh
    /\ answer' = NoAnswer
    /\ forwarded' = <<>>
    /\ delivered' = <<>>
    /\ burst' = (burst /\ \A r \in Reqs : phase[r] = "idle")
    /\ UNCHANGED <<enableAutoRefresh, isRefreshing, failedQueue, phase, isRetry,
                   refreshInFlight, refreshCalls, settled, batch,
                   lastDrain, n401>>
    /\ dispatches' = dispatches
    /\ tokenCall' = Call("setTokens", <<a, rt>>)
    /\ cbReturn' = <<>>
    /\ callbacks' = <<>>
    /\ UNCHANGED <<kind, url, storedState>>
    /\ UNCHANGED pageVars
    /\ UNCHANGED mountVars

\* public clearTokens()
ClearTokensCall ==
    /\ accessToken' = ClearTokens.access
    /\ refreshToken' = ClearTokens.refresh
    /\ answer' = NoAnswer
    /\ forwarded' = <<>>
    /\ delivered' = <<>>
    /\ burst' = (burst /\ \A r \in Reqs : phase[r] = "idle")
    /\ UNCHANGED <<enableAutoRefresh, isRefreshing, failedQueue, phase, isRetry,
                   refreshInFlight, refreshCalls, settled, batch,
                   lastDrain, n401>>
    /\ dispatches' = dispatches
    /\ tokenCall' = Call("clearTokens", <<>>)
    /\ cbReturn' = <<>>
    /\ callbacks' = <<>>
    /\ UNCHANGED <<kind, url, storedState>>
    /\ UNCHANGED pageVars
    /\ UNCHANGED mountVars

\* this.api(config) by a caller of kind k: request r goes through the request
\* interceptor to the transport
SendAs(r, k, body) ==
    /\ phase[r] = "idle"
    /\ \A x \in Reqs : x < r => phase[x] # "idle"
    /\ phase' = [phase EXCEPT ![r] = "inflight"]
    /\ kind' = [kind EXCEPT ![r] = k]
    /\ answer' = NoAnswer
    /\ forwarded' = <<Wire(r, AttachToken(None, accessToken), body)>>
    /\ delivered' = <<>>
    /\ callbacks' = <<>>
    /\ tokenCall' = NoCall
    /\ burst' = (burst /\ NoResponseYet /\ refreshToken # None)
    /\ dispatches' = CountDispatches(dispatches, forwarded')
    /\ UNCHANGED <<enableAutoRefresh, accessToken, refreshToken, isRefreshing,
                   failedQueue, isRetry, refreshInFlight, refreshCalls, settled,
                   batch, lastDrain, n401>>
    /\ UNCHANGED pageVars

\* a caller sends request r through this.api
Send(r) ==
    /\ SendAs(r, "app", None)
    /\ cbReturn' = <<>>
    /\ UNCHANGED <<url, storedState>>
    /\ UNCHANGED mountVars

\* response interceptor, fulfilled side
ResponseOk(r) ==
    /\ phase[r] = "inflight"
    /\ kind[r] = "app"
    /\ phase' = [phase EXCEPT ![r] = "done"]
    /\ answer' = Answer(r, "ok", <<>>)
    /\ forwarded' = <<>>
    /\ delivered' = <<Deliver(r, Resolved(r, "ok"))>>
    /\ settled' = Observe(r)
    /\ burst' = FALSE
    /\ UNCHANGED <<enableAutoRefresh, accessToken, refreshToken, isRefreshing,
                   failedQueue, isRetry, refreshInFlight, refreshCalls,
                   batch, lastDrain, n401>>
    /\ dispatches' = dispatches
    /\ CallersResume

\* response interceptor, fulfilled side, for POST /login and POST /oauth/login:
\* AuthClient.login / oauthLoginCallback store the tokens of the response
\* before their caller resumes
TokenResponseOk(r, a, rt) ==
    /\ phase[r] = "inflight"
    /\ kind[r] \in {"oauth", "login"}
    /\ phase' = [phase EXCEPT ![r] = "done"]
    /\ accessToken' = SetTokens(a, rt).access
    /\ refreshToken' = SetTokens(a, rt).refresh
    /\ answer' = Answer(r, "ok", <<a, rt>>)
    /\ forwarded' = <<>>
    /\ delivered' = <<Deliver(r, Resolved(r, "ok"))>>
    /\ settled' = Observe(r)
    /\ burst' = FALSE
    /\ UNCHANGED <<enableAutoRefresh, isRefreshing, failedQueue, isRetry,
                   refreshInFlight, refreshCalls, batch, lastDrain, n401,
                   dispatches>>
    /\ CallersResume

\* response interceptor, rejected side, guard of the refresh branch false
ResponsePassThrough(r, st) ==
    /\ phase[r] = "inflight"
    /\ ~ShouldRefresh(st, isRetry[r])
    /\ st = "e401" => n401 < Max401
    /\ n401' = IF st = "e401" THEN n401 + 1 ELSE n401
    /\ phase' = [phase EXCEPT ![r] = "done"]
    /\ answer' = Answer(r, st, <<>>)
    /\ forwarded' = <<>>
    /\ delivered' = <<Deliver(r, Rejected(r, st))>>
    /\ settled' = Observe(r)
    /\ burst' = (burst /\ st = "e401")
    /\ UNCHANGED <<enableAutoRefresh, accessToken, refreshToken, isRefreshing,
                   failedQueue, isRetry, refreshInFlight, refreshCalls,
                   batch, lastDrain>>
    /\ dispatches' = dispatches
    /\ CallersResume

\* 401 while a refresh is underway: the request is parked in failedQueue
Response401Queue(r) ==
    /\ phase[r] = "inflight"
    /\ ShouldRefresh("e401", isRetry[r])
    /\ RefreshUnderway
    /\ n401 < Max401
    /\ n401' = n401 + 1
    /\ failedQueue' = Enqueue(failedQueue, AppEntry(r))
    /\ phase' = [phase EXCEPT ![r] = "queued"]
    /\ answer' = Answer(r, "e401", <<>>)
    /\ forwarded' = <<>>
    /\ delivered' = <<>>
    /\ UNCHANGED <<enableAutoRefresh, accessToken, refreshToken, isRefreshing,
                   isRetry, refreshInFlight, refreshCalls, settled,
                   batch, lastDrain, burst>>
    /\ dispatches' = dispatches
    /\ CallersResume

\* 401, no refresh underway, no refresh token held
Response401NoRefreshToken(r) ==
    /\ phase[r] = "inflight"
    /\ ShouldRefresh("e401", isRetry[r])
    /\ ~RefreshUnderway
    /\ refreshToken = None
    /\ n401 < Max401
    /\ n401' = n401 + 1
    /\ LET effs == AppEffects(processQueue(failedQueue, None, NoError)) IN
        /\ isRetry' = [isRetry EXCEPT ![r] = TRUE]
        /\ accessToken' = ClearTokens.access
        /\ refreshToken' = ClearTokens.refresh
        /\ failedQueue' = QueueAfterDrain(failedQueue)
        /\ phase' = [x \in Reqs |->
                        IF x = r \/ x \in EffIds(effs) THEN "done" ELSE phase[x]]
        /\ delivered' = EffDeliver(effs) \o <<Deliver(r, MissingRefreshTokenError)>>
        /\ batch' = AppIds(failedQueue)
        /\ settled' = DeliveredIds(EffDeliver(effs))
        /\ lastDrain' = "rejected"
    /\ isRefreshing' = FALSE
    /\ answer' = Answer(r, "e401", <<>>)
    /\ forwarded' = <<>>
    /\ UNCHANGED <<enableAutoRefresh, refreshInFlight, refreshCalls,
                   burst>>
    /\ dispatches' = dispatches
    /\ CallersResume

\* 401, no refresh underway, refresh token held: the refresh call is sent
Response401StartRefresh(r) ==
    /\ phase[r] = "inflight"
    /\ ShouldRefresh("e401", isRetry[r])
    /\ ~RefreshUnderway
    /\ refreshToken # None
    /\ n401 < Max401
    /\ n401' = n401 + 1
    /\ isRefreshing' = TRUE
    /\ isRetry' = [isRetry EXCEPT ![r] = TRUE]
    /\ phase' = [phase EXCEPT ![r] = "awaiting"]
    /\ refreshInFlight' = refreshInFlight \cup {r}
    /\ refreshCalls' = refreshCalls + 1
    /\ answer' = Answer(r, "e401", <<>>)
    /\ forwarded' = <<Wire(RefreshId, AttachToken(None, accessToken), refreshToken)>>
    /\ delivered' = <<>>
    /\ UNCHANGED <<enableAutoRefresh, accessToken, refreshToken, failedQueue,
                   settled, batch, lastDrain, burst>>
    /\ dispatches' = dispatches
    /\ CallersResume

\* the Refresh Endpoint answers with a token pair
RefreshOk(r, a, rt) ==
    /\ r \in refreshInFlight
    /\ LET effs == AppEffects(processQueue(failedQueue, a, NoError))
           tok  == SetTokens(a, rt).access
       IN
        /\ accessToken' = tok
        /\ refreshToken' = SetTokens(a, rt).refresh
        /\ failedQueue' = QueueAfterDrain(failedQueue)
        /\ phase' = [x \in Reqs |->
                        IF x = r THEN "inflight"
                        ELSE IF x \in EffIds(effs)
                             THEN (IF EffOf(effs, x).act = "replay"
                                   THEN "inflight" ELSE "done")
                        ELSE phase[x]]
        /\ forwarded' = ReplayAfterQueue(EffWire(EffReplays(effs), tok),
                                         Wire(r, AttachToken(a, tok), None))
        /\ delivered' = EffDeliver(effs)
        /\ batch' = AppIds(failedQueue)
        /\ settled' = DeliveredIds(EffDeliver(effs))
        /\ lastDrain' = "replayed"
    /\ isRefreshing' = FALSE
    /\ refreshInFlight' = refreshInFlight \ {r}
    /\ answer' = Answer(RefreshId, "ok", <<a, rt>>)
    /\ UNCHANGED <<enableAutoRefresh, isRetry, refreshCalls, burst, n401>>
    /\ dispatches' = CountDispatches(dispatches, forwarded')
    /\ CallersResume

\* the refresh request fails and the interceptor passes the error on to the
\* catch block of the refresh branch
RefreshRejected(r, st) ==
    /\ r \in refreshInFlight
    /\ ~ShouldRefresh(st, FALSE)
    /\ LET err  == Rejected(RefreshId, st)
           effs == AppEffects(processQueue(failedQueue, None, err))
       IN
        /\ accessToken' = ClearTokens.access
        /\ refreshToken' = ClearTokens.refresh
        /\ failedQueue' = QueueAfterDrain(failedQueue)
        /\ phase' = [x \in Reqs |->
                        IF x = r \/ x \in EffIds(effs) THEN "done" ELSE phase[x]]
        /\ delivered' = EffDeliver(effs) \o <<Deliver(r, err)>>
        /\ batch' = AppIds(failedQueue)
        /\ settled' = DeliveredIds(EffDeliver(effs))
        /\ lastDrain' = "rejected"
    /\ isRefreshing' = FALSE
    /\ refreshInFlight' = refreshInFlight \ {r}
    /\ answer' = Answer(RefreshId, st, <<>>)
    /\ forwarded' = <<>>
    /\ UNCHANGED <<enableAutoRefresh, isRetry, refreshCalls, burst,
                   n401>>
    /\ dispatches' = dispatches
    /\ CallersResume

\* the refresh request is answered 401: it goes through the same response
\* interceptor, its config carries no _isRetry, and isRefreshing is true
Refresh401(r) ==
    /\ r \in refreshInFlight
    /\ ShouldRefresh("e401", FALSE)
    /\ RefreshUnderway
    /\ failedQueue' = Enqueue(failedQueue, RefreshEntry(r))
    /\ refreshInFlight' = refreshInFlight \ {r}
    /\ answer' = Answer(RefreshId, "e401", <<>>)
    /\ forwarded' = <<>>
    /\ delivered' = <<>>
    /\ UNCHANGED <<enableAutoRefresh, accessToken, refreshToken, isRefreshing,
                   phase, isRetry, refreshCalls, settled, batch,
                   lastDrain, burst, n401>>
    /\ dispatches' = dispatches
    /\ CallersResume

\* storeOAuthState(state)
StoreOAuthState(s) ==
    /\ storedState' = s
    /\ answer' = NoAnswer
    /\ forwarded' = <<>>
    /\ delivered' = <<>>
    /\ cbReturn' = <<>>
    /\ callbacks' = <<>>
    /\ tokenCall' = NoCall
    /\ UNCHANGED <<enableAutoRefresh, accessToken, refreshToken, isRefreshing,
                   failedQueue, phase, isRetry, refreshInFlight, refreshCalls,
                   settled, batch, lastDrain, burst, n401, dispatches, kind, url>>
    /\ UNCHANGED pageVars
    /\ UNCHANGED mountVars

\* OAuthCallbackHandler.processCallback(): either a check fails and the call
\* returns at once, or the stored state is cleared and
\* POST /oauth/login {provider, code, state} is sent through this.api
processCallback ==
    /\ url' = url
    /\ IF CallbackChecks(url, storedState) # None
       THEN /\ cbReturn' = <<CallbackFailure(CallbackChecks(url, storedState))>>
            /\ answer' = NoAnswer
            /\ forwarded' = <<>>
            /\ delivered' = <<>>
            /\ callbacks' = <<>>
            /\ tokenCall' = NoCall
            /\ UNCHANGED <<enableAutoRefresh, accessToken, refreshToken,
                           isRefreshing, failedQueue, phase, isRetry,
                           refreshInFlight, refreshCalls, settled, batch,
                           lastDrain, burst, n401, dispatches, kind, storedState>>
            /\ UNCHANGED pageVars
       ELSE /\ storedState' = clearOAuthState
            /\ \E r \in Reqs : SendAs(r, "oauth", extractOAuthParams(url).code)
            /\ cbReturn' = <<>>

\* the page calls processCallback()
ProcessCallback ==
    /\ processCallback
    /\ UNCHANGED mountVars

\* LoginForm.handleSubmit: AuthProvider.login calls authClient.login, which
\* sends POST /login through this.api
LoginSubmit(r) ==
    /\ SendAs(r, "login", "credentials")
    /\ cbReturn' = <<>>
    /\ UNCHANGED <<url, storedState>>
    /\ UNCHANGED mountVars

Next ==
    \/ \E p \in LoginPairs : SetTokensCall(p[1], p[2])
    \/ ClearTokensCall
    \/ \E r \in Reqs : Send(r)
    \/ \E r \in Reqs : ResponseOk(r)
    \/ \E r \in Reqs, st \in ErrStatuses : ResponsePassThrough(r, st)
    \/ \E r \in Reqs : Response401Queue(r)
    \/ \E r \in Reqs : Response401NoRefreshToken(r)
    \/ \E r \in Reqs : Response401StartRefresh(r)
    \/ \E r \in Reqs, p \in RefreshedPairs : RefreshOk(r, p[1], p[2])
    \/ \E r \in Reqs, st \in ErrStatuses : RefreshRejected(r, st)
    \/ \E r \in Reqs : Refresh401(r)

Spec == Init /\ [][Next]_vars

\* ------------------------------------------- the OAuth callback page
\* no request has been sent yet
Quiescent == \A r \in Reqs : phase[r] = "idle"
\* requests sent so far leave room for one more in a flow scenario
FlowRoom == Cardinality({r \in Reqs : phase[r] # "idle"}) < MaxFlowReqs
ExchangeOutstanding == \E r \in Reqs : kind[r] = "oauth" /\ phase[r] # "done"

\* a page load: a new AuthClient, the URL the browser landed on, and the
\* OAuth state an earlier page of the session left in sessionStorage
OAuthInit ==
    /\ enableAutoRefresh \in BOOLEAN
    /\ accessToken = None
    /\ refreshToken = None
    /\ isRefreshing = FALSE
    /\ failedQueue = <<>>
    /\ phase = [r \in Reqs |-> "idle"]
    /\ isRetry = [r \in Reqs |-> FALSE]
    /\ refreshInFlight = {}
    /\ refreshCalls = 0
    /\ answer = NoAnswer
    /\ forwarded = <<>>
    /\ delivered = <<>>
    /\ settled = <<>>
    /\ batch = <<>>
    /\ lastDrain = None
    /\ burst = TRUE
    /\ n401 = 0
    /\ dispatches = [r \in Reqs |-> 0]
    /\ kind = [r \in Reqs |-> "app"]
    /\ url \in Urls
    /\ storedState \in StoredStates \cup {None}
    /\ cbReturn = <<>>
    /\ callbacks = <<>>
    /\ tokenCall = NoCall
    /\ hash = NoFragment
    /\ hasProcessed = FALSE
    /\ currentFragment = NoFragment
    /\ fragResult = NoFragmentResult
    /\ fragOp = None
    /\ seen = FALSE
    /\ afterClear = "no"
    /\ yielded = <<>>
    /\ reloadPending = FALSE
    /\ autoHandleOAuthCallback = TRUE
    /\ isLoading = TRUE
    /\ mountPc = "unmounted"
    /\ storedTokens = NoStoredTokens

\* the page restores a session, may store an OAuth state and runs
\* processCallback, while the application may send requests of its own
OAuthNext ==
    \/ \E p \in LoginPairs : Quiescent /\ SetTokensCall(p[1], p[2])
    \/ ClearTokensCall
    \/ \E s \in StoredStates : StoreOAuthState(s)
    \/ (CallbackChecks(url, storedState) = None => FlowRoom) /\ ProcessCallback
    \/ \E r \in Reqs : ExchangeOutstanding /\ FlowRoom /\ Send(r)
    \/ \E r \in Reqs : ExchangeOutstanding /\ ResponseOk(r)
    \/ \E r \in Reqs, p \in LoginPairs : ExchangeOutstanding /\ TokenResponseOk(r, p[1], p[2])
    \/ \E r \in Reqs, st \in ErrStatuses : ExchangeOutstanding /\ ResponsePassThrough(r, st)
    \/ \E r \in Reqs : ExchangeOutstanding /\ Response401Queue(r)
    \/ \E r \in Reqs : ExchangeOutstanding /\ Response401NoRefreshToken(r)
    \/ \E r \in Reqs : ExchangeOutstanding /\ Response401StartRefresh(r)
    \/ \E r \in Reqs, p \in RefreshedPairs : ExchangeOutstanding /\ RefreshOk(r, p[1], p[2])
    \/ \E r \in Reqs, st \in ErrStatuses : ExchangeOutstanding /\ RefreshRejected(r, st)
    \/ \E r \in Reqs : ExchangeOutstanding /\ Refresh401(r)

OAuthSpec == OAuthInit /\ [][OAuthNext]_vars

\* ------------------------------------------------------- the login form
LoginOutstanding == \E r \in Reqs : kind[r] = "login" /\ phase[r] # "done"

LoginNext ==
    \/ \E p \in LoginPairs : Quiescent /\ SetTokensCall(p[1], p[2])
    \/ ClearTokensCall
    \/ \E r \in Reqs : FlowRoom /\ LoginSubmit(r)
    \/ \E r \in Reqs : LoginOutstanding /\ FlowRoom /\ Send(r)
    \/ \E r \in Reqs : LoginOutstanding /\ ResponseOk(r)
    \/ \E r \in Reqs, p \in LoginPairs : LoginOutstanding /\ TokenResponseOk(r, p[1], p[2])
    \/ \E r \in Reqs, st \in ErrStatuses : LoginOutstanding /\ ResponsePassThrough(r, st)
    \/ \E r \in Reqs : LoginOutstanding /\ Response401Queue(r)
    \/ \E r \in Reqs : LoginOutstanding /\ Response401NoRefreshToken(r)
    \/ \E r \in Reqs : LoginOutstanding /\ Response401StartRefresh(r)
    \/ \E r \in Reqs, p \in RefreshedPairs : LoginOutstanding /\ RefreshOk(r, p[1], p[2])
    \/ \E r \in Reqs, st \in ErrStatuses : LoginOutstanding /\ RefreshRejected(r, st)
    \/ \E r \in Reqs : LoginOutstanding /\ Refresh401(r)

LoginSpec == Init /\ [][LoginNext]_vars

TypeOK ==
    /\ enableAutoRefresh \in BOOLEAN
    /\ accessToken \in AccessToks \cup {None}
    /\ refreshToken \in RefreshToks \cup {None}
    /\ isRefreshing \in BOOLEAN
    /\ phase \in [Reqs -> {"idle", "inflight", "queued", "awaiting", "done"}]
    /\ isRetry \in [Reqs -> BOOLEAN]
    /\ refreshInFlight \subseteq Reqs
    /\ refreshCalls \in 0..NReq
    /\ n401 \in 0..Max401
    /\ dispatches \in [Reqs -> 0..(Max401 + 1)]
    /\ kind \in [Reqs -> {"app", "oauth", "login", "validate"}]
    /\ url \in Urls \cup {NoUrl}
    /\ storedState \in StoredStates \cup {None}
    /\ hash \in Fragments
    /\ hasProcessed \in BOOLEAN
    /\ currentFragment \in Fragments
    /\ reloadPending \in BOOLEAN
    /\ autoHandleOAuthCallback \in BOOLEAN
    /\ isLoading \in BOOLEAN
    /\ mountPc \in {"unmounted", "mounting", "processCallback", "validate",
                    "validateToken", "returned"}
    /\ storedTokens \in LoginPairs \cup {NoStoredTokens}

\* ----------------------------------------- the OAuth2 token-fragment page
\* what every step of the fragment page leaves alone: the AuthClient and its
\* callers
ClientIdle ==
    UNCHANGED <<enableAutoRefresh, accessToken, refreshToken, isRefreshing,
                failedQueue, phase, isRetry, refreshInFlight, refreshCalls,
                answer, forwarded, delivered, settled, batch, lastDrain, burst,
                n401, dispatches, kind, url, storedState, cbReturn, callbacks,
                tokenCall>>

\* the fragment of the page changes to f (a redirect arriving, a hashchange)
NavigateHash(f) ==
    /\ ~reloadPending
    /\ f # hash
    /\ hash' = f
    /\ fragResult' = NoFragmentResult
    /\ fragOp' = "navigate"
    /\ seen' = FALSE
    /\ afterClear' = "no"
    /\ yielded' = <<>>
    /\ UNCHANGED <<hasProcessed, currentFragment, reloadPending>>
    /\ ClientIdle
    /\ UNCHANGED mountVars

\* OAuth2FragmentHandler.resetProcessingState()
ResetProcessingState ==
    /\ hasProcessed' = FALSE
    /\ currentFragment' = NoFragment
    /\ fragResult' = NoFragmentResult
    /\ fragOp' = "resetProcessingState"
    /\ seen' = FALSE
    /\ afterClear' = (IF afterClear = "no" THEN "no" ELSE "reset")
    /\ UNCHANGED <<hash, yielded, reloadPending>>
    /\ ClientIdle
    /\ UNCHANGED mountVars

\* OAuth2FragmentHandler.processFragment()
ProcessFragment ==
    /\ fragResult' = processFragment(hash).result
    /\ hasProcessed' = processFragment(hash).hasProcessed
    /\ currentFragment' = processFragment(hash).currentFragment
    /\ fragOp' = "processFragment"
    /\ seen' = TRUE
    /\ yielded' = Yielded(yielded, fragResult')
    /\ UNCHANGED <<hash, afterClear, reloadPending>>
    /\ ClientIdle
    /\ UNCHANGED mountVars

\* OAuth2FragmentHandler.processAndClear() / extractOAuth2Tokens():
\* processFragment, then clearFragment.  history.replaceState either removes
\* the fragment, and the processing state is reset, or throws, and the catch
\* branch asks for a reload of the page without the fragment
ProcessAndClear(throws) ==
    /\ fragResult' = processFragment(hash).result
    /\ fragOp' = "processAndClear"
    /\ afterClear' = "yes"
    /\ yielded' = Yielded(yielded, fragResult')
    /\ IF throws
       THEN /\ hasProcessed' = processFragment(hash).hasProcessed
            /\ currentFragment' = processFragment(hash).currentFragment
            /\ reloadPending' = TRUE
            /\ hash' = hash
            /\ seen' = TRUE
       ELSE /\ hash' = NoFragment
            /\ hasProcessed' = FALSE
            /\ currentFragment' = NoFragment
            /\ reloadPending' = reloadPending
            /\ seen' = FALSE
    /\ ClientIdle
    /\ UNCHANGED mountVars

\* the reload asked for by clearFragment's catch branch takes place: a new
\* document without the fragment, the module's statics initial again
PageReload ==
    /\ reloadPending
    /\ hash' = NoFragment
    /\ hasProcessed' = FALSE
    /\ currentFragment' = NoFragment
    /\ fragResult' = NoFragmentResult
    /\ fragOp' = "load"
    /\ seen' = FALSE
    /\ afterClear' = "no"
    /\ yielded' = <<>>
    /\ reloadPending' = FALSE
    /\ ClientIdle
    /\ UNCHANGED mountVars

\* the page is loaded with any fragment
FragmentInit ==
    /\ enableAutoRefresh = TRUE
    /\ accessToken = None
    /\ refreshToken = None
    /\ isRefreshing = FALSE
    /\ failedQueue = <<>>
    /\ phase = [r \in Reqs |-> "idle"]
    /\ isRetry = [r \in Reqs |-> FALSE]
    /\ refreshInFlight = {}
    /\ refreshCalls = 0
    /\ answer = NoAnswer
    /\ forwarded = <<>>
    /\ delivered = <<>>
    /\ settled = <<>>
    /\ batch = <<>>
    /\ lastDrain = None
    /\ burst = TRUE
    /\ n401 = 0
    /\ dispatches = [r \in Reqs |-> 0]
    /\ kind = [r \in Reqs |-> "app"]
    /\ url = NoUrl
    /\ storedState = None
    /\ cbReturn = <<>>
    /\ callbacks = <<>>
    /\ tokenCall = NoCall
    /\ hash \in Fragments
    /\ hasProcessed = FALSE
    /\ currentFragment = NoFragment
    /\ fragResult = NoFragmentResult
    /\ fragOp = "load"
    /\ seen = FALSE
    /\ afterClear = "no"
    /\ yielded = <<>>
    /\ reloadPending = FALSE
    /\ autoHandleOAuthCallback = TRUE
    /\ isLoading = TRUE
    /\ mountPc = "unmounted"
    /\ storedTokens = NoStoredTokens

FragmentNext ==
    \/ \E f \in Fragments : NavigateHash(f)
    \/ ResetProcessingState
    \/ ProcessFragment
    \/ \E throws \in BOOLEAN : ProcessAndClear(throws)
    \/ PageReload

FragmentSpec == FragmentInit /\ [][FragmentNext]_vars

\* ------------------------------------------------- AuthProvider mounting
\* response interceptor, fulfilled side, for POST /token/validate sent by the
\* mount effect: a valid answer makes the effect call setTokens with the
\* stored tokens
ValidateResponseOk(r, valid) ==
    /\ phase[r] = "inflight"
    /\ kind[r] = "validate"
    /\ phase' = [phase EXCEPT ![r] = "done"]
    /\ accessToken' = IF valid THEN SetTokens(storedTokens[1], storedTokens[2]).access
                      ELSE accessToken
    /\ refreshToken' = IF valid THEN SetTokens(storedTokens[1], storedTokens[2]).refresh
                       ELSE refreshToken
    /\ answer' = Answer(r, "ok", <<valid>>)
    /\ forwarded' = <<>>
    /\ delivered' = <<Deliver(r, Resolved(r, "ok"))>>
    /\ settled' = Observe(r)
    /\ burst' = FALSE
    /\ UNCHANGED <<enableAutoRefresh, isRefreshing, failedQueue, isRetry,
                   refreshInFlight, refreshCalls, batch, lastDrain, n401,
                   dispatches>>
    /\ CallersResume

\* useEffect(handleOAuthCallback) on mount, up to its first await or return
MountEffect ==
    /\ mountPc = "mounting"
    /\ UNCHANGED autoHandleOAuthCallback
    /\ IF ~autoHandleOAuthCallback
       THEN /\ mountPc' = "returned"
            /\ UNCHANGED <<isLoading, storedTokens>>
            /\ ClientIdle
            /\ UNCHANGED pageVars
       ELSE /\ processCallback
            /\ LET m == IF cbReturn' # <<>>
                        THEN MountAfterCallback(cbReturn'[1])
                        ELSE [pc |-> "processCallback", isLoading |-> isLoading,
                              storedTokens |-> storedTokens]
               IN  /\ mountPc' = m.pc
                   /\ isLoading' = m.isLoading
                   /\ storedTokens' = m.storedTokens

\* the mount effect has found stored tokens and calls
\* authClient.validateToken(existingTokens.access_token)
MountValidateToken(r) ==
    /\ mountPc = "validate"
    /\ SendAs(r, "validate", storedTokens[1])
    /\ cbReturn' = <<>>
    /\ mountPc' = "validateToken"
    /\ UNCHANGED <<url, storedState, autoHandleOAuthCallback, isLoading,
                   storedTokens>>

\* AuthProvider is rendered for the first time on a page with any URL
MountInit ==
    /\ enableAutoRefresh \in BOOLEAN
    /\ accessToken = None
    /\ refreshToken = None
    /\ isRefreshing = FALSE
    /\ failedQueue = <<>>
    /\ phase = [r \in Reqs |-> "idle"]
    /\ isRetry = [r \in Reqs |-> FALSE]
    /\ refreshInFlight = {}
    /\ refreshCalls = 0
    /\ answer = NoAnswer
    /\ forwarded = <<>>
    /\ delivered = <<>>
    /\ settled = <<>>
    /\ batch = <<>>
    /\ lastDrain = None
    /\ burst = TRUE
    /\ n401 = 0
    /\ dispatches = [r \in Reqs |-> 0]
    /\ kind = [r \in Reqs |-> "app"]
    /\ url \in Urls
    /\ storedState \in StoredStates \cup {None}
    /\ cbReturn = <<>>
    /\ callbacks = <<>>
    /\ tokenCall = NoCall
    /\ hash = NoFragment
    /\ hasProcessed = FALSE
    /\ currentFragment = NoFragment
    /\ fragResult = NoFragmentResult
    /\ fragOp = None
    /\ seen = FALSE
    /\ afterClear = "no"
    /\ yielded = <<>>
    /\ reloadPending = FALSE
    /\ autoHandleOAuthCallback \in BOOLEAN
    /\ isLoading = TRUE
    /\ mountPc = "mounting"
    /\ storedTokens \in LoginPairs \cup {NoStoredTokens}

\* the mount effect and the answers to the requests it sends; the client
\* holds no refresh token while they are outstanding, so no refresh starts
MountNext ==
    \/ MountEffect
    \/ \E r \in Reqs : MountValidateToken(r)
    \/ \E r \in Reqs, p \in LoginPairs : TokenResponseOk(r, p[1], p[2])
    \/ \E r \in Reqs, valid \in BOOLEAN : ValidateResponseOk(r, valid)
    \/ \E r \in Reqs, st \in ErrStatuses : ResponsePassThrough(r, st)
    \/ \E r \in Reqs : Response401NoRefreshToken(r)

MountSpec == MountInit /\ [][MountNext]_vars

\* ------------------------------------------------------------------ claims
\* the trigger whose refresh call the latest step consumed the answer of
RefreshAnswered == answer.req = RefreshId
RefreshFailed == RefreshAnswered /\ answer.st \in ErrStatuses
RefreshSucceeded == RefreshAnswered /\ answer.st = "ok"
Pos(sq, x) == CHOOSE i \in 1..Len(sq) : sq[i] = x

\* C1: in a burst of concurrently outstanding requests that were all answered
\* 401, with auto-refresh on and a refresh token held at the start, exactly one
\* call to the Refresh Endpoint is made, however the 401 answers interleave
\* with the completion of the refresh call.
C1_ExactlyOneRefreshCall ==
    (burst /\ enableAutoRefresh /\ n401 > 0) => refreshCalls = 1

\* C2: at most one refresh call is in flight; a refresh call is started only
\* when isRefreshing is false, and isRefreshing is true for as long as the
\* call is outstanding.
C2_SingleRefreshInFlight ==
    /\ [](Cardinality(refreshInFlight) <= 1 /\ (refreshInFlight # {} => isRefreshing))
    /\ [][refreshCalls' # refreshCalls => (~isRefreshing /\ isRefreshing')]_vars

C2_Witness ==
    /\ Cardinality(refreshInFlight) = 1
    /\ Len(AppIds(failedQueue)) >= 1
    /\ refreshCalls = 2

\* C3: every request re-dispatched after a refresh, the triggering request and
\* each request replayed from the pending queue, carries the retry marker, so
\* that a second 401 is terminal for it.
C3_ReplaysCarryRetryMarker ==
    RefreshSucceeded =>
        \A i \in 1..Len(forwarded) : isRetry[forwarded[i].req]

\* C4: once the Refresh Endpoint has answered, with any outcome, no request
\* enqueued during that refresh is still pending in the queue.
C4_QueueDrainedOnceRefreshAnswered ==
    AppIds(failedQueue) # <<>> => refreshInFlight # {}

\* C5: once the Refresh Endpoint has answered, with any outcome, isRefreshing
\* has been released.
C5_ReleasedOnceRefreshAnswered ==
    isRefreshing => refreshInFlight # {}

\* C6: when the Refresh Endpoint call fails (401, another error status or a
\* network failure) both tokens are absent and isAuthenticated() is false.
C6_TokensClearedOnRefreshFailure ==
    RefreshFailed =>
        (accessToken = None /\ refreshToken = None /\ ~IsAuthenticated)

\* C7: when the refresh call fails, the triggering request and every request
\* queued during that refresh are rejected with the refresh call's own error,
\* and none of them is forwarded to the transport again.
C7_AllRejectedWithRefreshError ==
    [][ (answer'.req = RefreshId /\ answer'.st \in ErrStatuses) =>
          /\ forwarded' = <<>>
          /\ \A x \in SeqRange(AppIds(failedQueue))
                      \cup (refreshInFlight \ refreshInFlight') :
                \E i \in 1..Len(delivered') :
                    delivered'[i] = Deliver(x, Rejected(RefreshId, answer'.st)) ]_vars

\* C8: an un-retried 401 with no refresh underway calls the Refresh Endpoint
\* with the refresh token held; when it answers (a, rt) the client stores
\* exactly that pair, replays the triggering request once with Bearer a, and
\* the caller receives the outcome of that replay.
C8_RefreshSuccessPath ==
    [][ /\ refreshCalls' # refreshCalls =>
              forwarded' = <<Wire(RefreshId, accessToken, refreshToken)>>
        /\ (answer'.req = RefreshId /\ answer'.st = "ok") =>
              \E x \in refreshInFlight \ refreshInFlight' :
                  /\ accessToken' = answer'.data[1]
                  /\ refreshToken' = answer'.data[2]
                  /\ forwarded'[Len(forwarded')] = Wire(x, answer'.data[1], None)
                  /\ Cardinality({i \in 1..Len(forwarded') : forwarded'[i].req = x}) = 1
                  /\ phase'[x] = "inflight"
                  /\ isRetry'[x]
                  /\ delivered' = <<>>
        /\ \A x \in Reqs :
              (isRetry[x] /\ phase[x] = "inflight" /\ answer'.req = x) =>
                  /\ phase'[x] = "done"
                  /\ forwarded' = <<>>
                  /\ delivered' = <<Deliver(x, IF answer'.st = "ok"
                                               THEN Resolved(x, "ok")
                                               ELSE Rejected(x, answer'.st))>> ]_vars

C8_Witness ==
    /\ RefreshSucceeded
    /\ answer.data = <<"A2", "R2">>
    /\ accessToken = "A2"
    /\ refreshToken = "R2"
    /\ forwarded[Len(forwarded)].auth = "A2"

\* C9: requests enqueued in the order A, B, C during one refresh are appended
\* to the queue in that order, and when the refresh succeeds their replays are forwarded to
\* the transport in the order A, B, C, each exactly once, before the replay of
\* the triggering request.
C9_FifoReplayDispatch ==
    [][ /\ \A x \in Reqs :
              (phase[x] # "queued" /\ phase'[x] = "queued") =>
                  AppIds(failedQueue') = Append(AppIds(failedQueue), x)
        /\ (answer'.req = RefreshId /\ answer'.st = "ok") =>
              /\ Len(forwarded') = Len(AppIds(failedQueue)) + 1
              /\ \A i \in 1..Len(AppIds(failedQueue)) :
                    forwarded'[i].req = AppIds(failedQueue)[i] ]_vars

C9_Witness ==
    /\ RefreshSucceeded
    /\ Len(batch) >= 2
    /\ Len(forwarded) = Len(batch) + 1
    /\ batch[1] > batch[2]

\* C10 as stated: requests queued during one refresh are observed settled by
\* their callers in arrival order, on refresh success and on refresh failure.
C10_SettledInArrivalOrder ==
    \A i, j \in 1..Len(batch) :
        (i < j /\ batch[j] \in SeqRange(settled)) =>
            /\ batch[i] \in SeqRange(settled)
            /\ Pos(settled, batch[i]) < Pos(settled, batch[j])

\* C10 amended: when a drain rejects the queued requests (refresh failure),
\* the callers observe the rejections in arrival order; when the refresh
\* succeeds the drain settles nobody, the replays are only dispatched.
C10_RejectedInArrivalOrder ==
    /\ lastDrain = "rejected" => settled = batch
    /\ (RefreshSucceeded /\ lastDrain = "replayed") => settled = <<>>

C10_Witness ==
    /\ RefreshFailed
    /\ lastDrain = "rejected"
    /\ Len(batch) >= 2
    /\ batch[1] > batch[2]

\* C11: when a 401 answers a request that is not marked as a retry, with
\* auto-refresh enabled, no refresh underway and no refresh token held, the
\* handler makes no call to the Refresh Endpoint and forwards nothing, both
\* tokens are absent afterwards (isAuthenticated() is false), the caller is
\* rejected with the missing-refresh-token error, and isRefreshing is false
\* when the caller observes it.
C11_MissingRefreshToken ==
    [][ \A r \in Reqs :
          ( /\ answer' = Answer(r, "e401", <<>>)
            /\ phase[r] = "inflight"
            /\ ~isRetry[r]
            /\ enableAutoRefresh
            /\ ~isRefreshing
            /\ refreshToken = None ) =>
              /\ refreshCalls' = refreshCalls
              /\ forwarded' = <<>>
              /\ accessToken' = None
              /\ refreshToken' = None
              /\ ~IsAuthenticated'
              /\ delivered' = <<Deliver(r, Rejected(LocalId, "missing"))>>
              /\ phase'[r] = "done"
              /\ ~isRefreshing' ]_vars

C11_Witness ==
    \E r \in Reqs :
        /\ answer = Answer(r, "e401", <<>>)
        /\ delivered = <<Deliver(r, MissingRefreshTokenError)>>
        /\ enableAutoRefresh
        /\ isRetry[r]
        /\ refreshCalls = 0
        /\ ~IsAuthenticated
        /\ ~isRefreshing

\* C12: with enableAutoRefresh = false the client never calls the Refresh
\* Endpoint, never enqueues and never sets isRefreshing; a 401 answer is
\* handed to the caller as that request's own rejection by the step that
\* consumes it, nothing is forwarded, and the tokens stay as they were.
C12_AutoRefreshDisabled ==
    /\ [](~enableAutoRefresh =>
            (refreshCalls = 0 /\ failedQueue = <<>> /\ ~isRefreshing))
    /\ [][ \A r \in Reqs :
             (~enableAutoRefresh /\ answer' = Answer(r, "e401", <<>>)) =>
                 /\ delivered' = <<Deliver(r, Rejected(r, "e401"))>>
                 /\ phase'[r] = "done"
                 /\ forwarded' = <<>>
                 /\ refreshCalls' = refreshCalls
                 /\ failedQueue' = failedQueue
                 /\ accessToken' = accessToken
                 /\ refreshToken' = refreshToken
                 /\ isRefreshing' = isRefreshing ]_vars

C12_Witness ==
    \E r \in Reqs :
        /\ ~enableAutoRefresh
        /\ answer = Answer(r, "e401", <<>>)
        /\ delivered = <<Deliver(r, Rejected(r, "e401"))>>
        /\ ~isRetry[r]
        /\ accessToken # None
        /\ refreshToken # None

\* C13: every request is handed to the transport at most twice, its first
\* dispatch and at most one replay, whatever the interleaving of 401 answers
\* and refresh cycles.
C13_AtMostOneReplay ==
    \A r \in Reqs : dispatches[r] <= 2

\* C14: the step that consumes an answer other than a 401 to an application
\* request (success, another error status, a network failure) hands exactly
\* that answer to the caller, resolved for a success and rejected otherwise,
\* forwards nothing and leaves the tokens, isRefreshing, failedQueue and the
\* number of refresh calls as they were, also while a refresh is underway.
C14_NonAuthAnswerPassesThrough ==
    [][ \A r \in Reqs :
          (answer'.req = r /\ answer'.st # "e401") =>
              /\ Len(delivered') = 1
              /\ delivered'[1].req = r
              /\ delivered'[1].result.from = r
              /\ delivered'[1].result.st = answer'.st
              /\ delivered'[1].result.res =
                     (IF answer'.st = "ok" THEN "resolved" ELSE "rejected")
              /\ phase'[r] = "done"
              /\ forwarded' = <<>>
              /\ accessToken' = accessToken
              /\ refreshToken' = refreshToken
              /\ isRefreshing' = isRefreshing
              /\ failedQueue' = failedQueue
              /\ refreshCalls' = refreshCalls ]_vars

C14_Witness ==
    \E r \in Reqs :
        /\ answer.req = r
        /\ answer.st \in {"e500", "neterr"}
        /\ delivered = <<Deliver(r, Rejected(r, answer.st))>>
        /\ isRefreshing
        /\ refreshInFlight # {}
        /\ AppIds(failedQueue) # <<>>
        /\ accessToken # None

\* C15: every request the latest handler handed to the transport, a first
\* dispatch, a replay or the refresh call, carries as bearer exactly the
\* access token the client holds when it is dispatched, and carries no bearer
\* header when the client holds none.
C15_BearerIsTokenHeld ==
    \A i \in 1..Len(forwarded) :
        /\ forwarded[i].auth = accessToken
        /\ (forwarded[i].auth = None) <=> ~IsAuthenticated

\* a drain replays two requests and the trigger with the refreshed token
C15_Witness ==
    /\ RefreshSucceeded
    /\ Len(forwarded) >= 2
    /\ accessToken = "A2"
    /\ \A i \in 1..Len(forwarded) : forwarded[i].auth = "A2"
    /\ \E r \in Reqs : dispatches[r] = 2 /\ ~isRetry[r]

\* the step is a call of processCallback that sends the exchange request
ExchangeSent ==
    \E r \in Reqs : phase[r] = "idle" /\ phase'[r] = "inflight" /\ kind'[r] = "oauth"
\* the step is a call of processCallback that returns without sending anything
CallbackReturnedAtOnce == cbReturn' # <<>> /\ delivered' = <<>>
\* the URL passes every check of processCallback that precedes the state check
UrlWellFormed ==
    /\ isOAuthCallback(url)
    /\ ~Truthy(url.error)
    /\ Truthy(url.code)
    /\ Truthy(url.state)

\* C16 as stated: processCallback sends the token exchange only when the URL
\* carries no error parameter, a non-empty code and a non-empty state equal to
\* the stored state; when the stored state is missing or differs, the call
\* sends no request, and returns the invalid-state failure (for a URL that
\* passes the earlier checks).
C16_ExchangeOnlyWithoutErrorParam ==
    [][ /\ ExchangeSent =>
              /\ url.error = None
              /\ Truthy(url.code)
              /\ Truthy(url.state)
              /\ url.state = storedState
        /\ ((ExchangeSent \/ CallbackReturnedAtOnce)
                /\ (storedState = None \/ url.state # storedState)) =>
              /\ forwarded' = <<>>
              /\ ~ExchangeSent
              /\ UrlWellFormed =>
                    cbReturn' = <<CallbackFailure("Invalid state parameter")>> ]_vars

\* C16 amended: the exchange is sent only when the URL carries no non-empty
\* error parameter (an empty error value counts as none), a non-empty code
\* and a non-empty state equal to the stored state, and the stored state is
\* removed by that call; when the stored state is missing or differs, the
\* call sends no request, and returns the invalid-state failure for a URL that
\* passes the earlier checks.
C16_ExchangeOnlyForCheckedCallback ==
    [][ /\ ExchangeSent =>
              /\ UrlWellFormed
              /\ url.state = storedState
              /\ storedState' = None
        /\ ((ExchangeSent \/ CallbackReturnedAtOnce)
                /\ (storedState = None \/ url.state # storedState)) =>
              /\ forwarded' = <<>>
              /\ ~ExchangeSent
              /\ UrlWellFormed =>
                    cbReturn' = <<CallbackFailure("Invalid state parameter")>> ]_vars

C16_Witness ==
    \E r \in Reqs :
        /\ kind[r] = "oauth"
        /\ phase[r] = "inflight"
        /\ dispatches[r] = 1
        /\ forwarded = <<Wire(r, accessToken, "c1")>>
        /\ url.state = "s1"
        /\ storedState = None

\* C17: every call of processCallback returns a result, it never rejects;
\* the result has success = true only when the exchange was answered with
\* tokens, and the AuthClient then holds exactly those tokens
\* (isAuthenticated() is true); every other result has success = false with an
\* error string, and the step that produces it leaves the client's tokens as
\* they were.
C17_CallbackResultMatchesClient ==
    [][ /\ Len(cbReturn') >= Len(OfKind(delivered', "oauth"))
        /\ \A i \in 1..Len(cbReturn') :
              /\ cbReturn'[i].success =>
                    /\ answer'.st = "ok"
                    /\ cbReturn'[i].tokens = answer'.data
                    /\ accessToken' = answer'.data[1]
                    /\ refreshToken' = answer'.data[2]
                    /\ IsAuthenticated'
              /\ ~cbReturn'[i].success =>
                    /\ Truthy(cbReturn'[i].error)
                    /\ accessToken' = accessToken
                    /\ refreshToken' = refreshToken ]_vars

\* the login attempts the latest handler settled with outcome o
LoginsSettled(o) ==
    {i \in 1..Len(delivered) :
        kind[delivered[i].req] = "login" /\ delivered[i].result.res = o}
CallbacksMade(c) == {i \in 1..Len(callbacks) : callbacks[i] = c}

\* C18: LoginForm calls onSuccess once for each login attempt that succeeded
\* and for no other, and calls onError, and not onSuccess, once for each login
\* attempt that failed.
C18_FormCallbacksMatchOutcome ==
    /\ Cardinality(CallbacksMade(FormCallback("onSuccess")))
           = Cardinality(LoginsSettled("resolved"))
    /\ Cardinality(CallbacksMade(FormCallback("onError")))
           = Cardinality(LoginsSettled("rejected"))

\* C19: in every reachable state, isRefreshing = false implies that the
\* pending queue is empty.
C19_QueueEmptyUnlessRefreshing ==
    ~isRefreshing => failedQueue = <<>>

\* a drain has emptied a queue that held requests and the flag is released
C19_Witness ==
    /\ ~isRefreshing
    /\ failedQueue = <<>>
    /\ Len(batch) >= 2
    /\ lastDrain \in {"replayed", "rejected"}
    /\ RefreshAnswered

\* C20: a 401 for a request that is not marked as a retry, arriving while
\* isRefreshing is true (auto-refresh on), only appends one record for that
\* request at the end of failedQueue: no refresh call, nothing forwarded,
\* nobody settled, tokens and isRefreshing unchanged; and a queued request is
\* handed to the transport again only by the step that consumes the successful
\* answer of the refresh call.
C20_QueuedBehindRefresh ==
    [][ /\ \A r \in Reqs :
              ( /\ answer' = Answer(r, "e401", <<>>)
                /\ phase[r] = "inflight"
                /\ ~isRetry[r]
                /\ enableAutoRefresh
                /\ isRefreshing ) =>
                  /\ failedQueue' = Append(failedQueue, AppEntry(r))
                  /\ phase' = [phase EXCEPT ![r] = "queued"]
                  /\ refreshCalls' = refreshCalls
                  /\ refreshInFlight' = refreshInFlight
                  /\ forwarded' = <<>>
                  /\ delivered' = <<>>
                  /\ dispatches' = dispatches
                  /\ accessToken' = accessToken
                  /\ refreshToken' = refreshToken
                  /\ isRefreshing'
        /\ \A r \in Reqs :
              (phase[r] = "queued" /\ dispatches'[r] # dispatches[r]) =>
                  /\ answer'.req = RefreshId
                  /\ answer'.st = "ok"
                  /\ dispatches'[r] = dispatches[r] + 1 ]_vars

\* a second request has been parked behind the first while the refresh call
\* is still outstanding
C20_Witness ==
    \E r \in Reqs :
        /\ answer = Answer(r, "e401", <<>>)
        /\ phase[r] = "queued"
        /\ Len(failedQueue) = 2
        /\ failedQueue[2] = AppEntry(r)
        /\ isRefreshing
        /\ refreshInFlight # {}
        /\ forwarded = <<>>

\* C21: in the step that consumes a successful answer of the refresh call,
\* every request replayed from failedQueue is forwarded carrying the access
\* token of that answer, which is the token the client holds from then on,
\* whatever token it was first sent with or was held when it was queued.
C21_ReplaysCarryRefreshedToken ==
    [][ (answer'.req = RefreshId /\ answer'.st = "ok") =>
          /\ accessToken' = answer'.data[1]
          /\ \A i \in 1..Len(AppIds(failedQueue)) :
                forwarded'[i] = Wire(AppIds(failedQueue)[i], answer'.data[1], None) ]_vars

\* a second refresh replays a queued request with the token it returned
C21_Witness ==
    /\ RefreshSucceeded
    /\ refreshCalls = 2
    /\ Len(batch) >= 1
    /\ \A i \in 1..Len(batch) : forwarded[i] = Wire(batch[i], answer.data[1], None)
    /\ answer.data[1] = "A2"

\* the client holds an access token and no refresh token
RefreshlessSession == accessToken # None /\ refreshToken = None

C23_YieldsAtMostOnce ==
    [][ /\ (seen /\ fragOp' = "processFragment") => fragResult' = AlreadyProcessed
        /\ (afterClear # "no" /\ fragOp' \in {"processFragment", "processAndClear"}) =>
              /\ ~fragResult'.success
              /\ fragResult'.tokens # yielded \/ yielded = <<>> ]_vars

\* C23 amended: the second half too needs that resetProcessingState was not
\* called in between.  When history.replaceState throws, clearFragment leaves
\* the fragment in the URL until the reload takes place.
C23_YieldsOnceUnlessReset ==
    [][ /\ (seen /\ fragOp' = "processFragment") => fragResult' = AlreadyProcessed
        /\ (afterClear = "yes" /\ fragOp' \in {"processFragment", "processAndClear"}) =>
              /\ ~fragResult'.success
              /\ fragResult'.tokens # yielded \/ yielded = <<>> ]_vars

\* the tokens were handed out by processAndClear, and a further
\* processFragment on the same page has failed
C23_Witness ==
    /\ yielded = <<"A1", "R1", "u1">>
    /\ afterClear = "yes"
    /\ fragOp = "processFragment"
    /\ ~fragResult.success
    /\ hash = NoFragment

\* C24: the pending queue only ever holds application requests: the refresh
\* request is never queued behind its own refresh, and a 401 answer to it
\* reaches the refresh branch as a refresh failure, which releases the
\* single-flight guard.
C24_RefreshRequestNeverQueued ==
    /\ \A i \in 1..Len(failedQueue) : failedQueue[i].kind = "app"
    /\ (RefreshAnswered /\ answer.st = "e401") => ~isRefreshing

\* C25: clearTokens() called while a refresh call is in flight is not undone
\* by that refresh: when the refresh is answered, whatever the answer, the
\* gateway still holds no tokens and isAuthenticated() is false.
C25_ClearNotUndoneByRefresh ==
    [][ (refreshInFlight # {} /\ accessToken = None /\ refreshToken = None
            /\ answer'.req = RefreshId) =>
          /\ accessToken' = None
          /\ refreshToken' = None
          /\ ~IsAuthenticated' ]_vars

\* C26: after a successful refresh, a failed answer (any status, a second 401
\* included, or a network error) to a replayed request, the trigger or one
\* that was queued, leaves the token pair in place.
C26_ReplayFailureKeepsNewTokens ==
    [][ \A r \in Reqs :
          (phase[r] = "inflight" /\ dispatches[r] >= 2
              /\ answer'.req = r /\ answer'.st \in ErrStatuses) =>
            /\ accessToken' = accessToken
            /\ refreshToken' = refreshToken ]_vars

\* C27: on refresh success the replay of the triggering request is handed to
\* the transport last: every request queued during that refresh has had its
\* replay forwarded before it, although the trigger was the first to fail.
C27_TriggerReplayedLast ==
    [][ (answer'.req = RefreshId /\ answer'.st = "ok") =>
          \A r \in refreshInFlight \ refreshInFlight' :
            /\ forwarded' # <<>>
            /\ forwarded'[Len(forwarded')].req = r
            /\ \A i \in 1..(Len(forwarded') - 1) : forwarded'[i].req # r
            /\ \A x \in SeqRange(AppIds(failedQueue)) :
                  \E j \in 1..(Len(forwarded') - 1) : forwarded'[j].req = x ]_vars

\* request 1 started the refresh, two requests were queued behind it, and all
\* three were replayed with the trigger last
C27_Witness ==
    /\ RefreshSucceeded
    /\ Len(batch) = 2
    /\ Len(forwarded) = 3
    /\ forwarded[3].req = 1
    /\ forwarded[1].req = batch[1]
    /\ forwarded[2].req = batch[2]
    /\ isRetry[1]

\* C28: when the server answers AuthClient.login() with 401, that 401 error
\* is handed to the caller of login, no call is made to the Refresh Endpoint,
\* nothing is replayed, and the tokens held before are unchanged.
C28_Login401Propagates ==
    [][ \A r \in Reqs :
          (kind[r] = "login" /\ phase[r] = "inflight" /\ dispatches[r] = 1
              /\ answer' = Answer(r, "e401", <<>>)) =>
            /\ delivered' = <<Deliver(r, Rejected(r, "e401"))>>
            /\ refreshCalls' = refreshCalls
            /\ forwarded' = <<>>
            /\ accessToken' = accessToken
            /\ refreshToken' = refreshToken ]_vars

\* C29: the stored OAuth state is single-use.  The step of processCallback
\* that sends the exchange has validated the state of the URL against the
\* stored one and leaves no stored state; a further processCallback on the same
\* callback URL, the state not stored anew, sends no exchange and returns the
\* invalid-state failure; a processCallback that returns a failure leaves the
\* stored state as it was.
C29_StoredStateSingleUse ==
    [][ /\ ExchangeSent =>
              /\ storedState # None
              /\ url.state = storedState
              /\ storedState' = None
        /\ ((\E r \in Reqs : kind[r] = "oauth") /\ storedState = None) =>
              /\ ~ExchangeSent
              /\ CallbackReturnedAtOnce =>
                    cbReturn' = <<CallbackFailure("Invalid state parameter")>>
        /\ CallbackReturnedAtOnce => storedState' = storedState ]_vars

\* one exchange was sent, and the second processCallback on the same URL has
\* returned the invalid-state failure without sending another
C29_Witness ==
    /\ Cardinality({r \in Reqs : kind[r] = "oauth"}) = 1
    /\ url.state = "s1"
    /\ storedState = None
    /\ cbReturn = <<CallbackFailure("Invalid state parameter")>>
    /\ forwarded = <<>>

\* C30: after AuthProvider has mounted, isLoading becomes false without any
\* user action, whatever autoHandleOAuthCallback is and however the callback
\* processing and the validation of stored tokens end: once the mount effect
\* has returned, nothing it started is outstanding and isLoading is false.
C30_LoadingEndsWithMountEffect ==
    mountPc = "returned" =>
        /\ ~isLoading
        /\ \A r \in Reqs : phase[r] \in {"idle", "done"}
====
